---- MODULE Spec2Model ----
(***************************************************************************)
(* The discretized investment problem of day_4/investment_jax.ipynb:       *)
(* the Bellman operators, policy evaluation and the three solvers          *)
(* (value iteration, Howard policy iteration, optimistic policy            *)
(* iteration).                                                             *)
(*                                                                         *)
(* Real numbers are exact rationals.  A scalar is a record                 *)
(* [num, den] with den > 0; an Ny x Nz array is a record [num, den] whose  *)
(* num maps every index pair <<i, j>> to an integer numerator over the     *)
(* common denominator den.  Indices are 0-based as in the source.          *)
(***************************************************************************)
EXTENDS Integers, Sequences, FiniteSets, TLC

\* ------------------------------------------------------------- bounds
\* Largest iteration cap max_iter handed to successive_approx.
MaxIterBound == 3
\* Largest inner-iteration count m handed to optimistic_policy_iteration.
MaxM == 2
\* optimistic_policy_iteration has no cap in the source; the model stops
\* exploring a run of it after this many loop passes.
MaxLoops == 3
\* policy_iteration has no cap in the source; the model stops exploring a run
\* of it after this many loop passes.
MaxPasses == 4
\* Largest entry of the value arrays T is probed with.
ValBound == 1

\* ------------------------------------------------------- exact numbers
\* np.abs on a scalar
Abs(x) == IF x < 0 THEN -x ELSE x

RECURSIVE GCD(_, _)
\* greatest common divisor of two naturals (lowest terms of a rational)
GCD(a, b) == IF b = 0 THEN a ELSE GCD(b, a % b)

\* the largest element of a finite non-empty set of integers (np.max / jnp.max)
SetMax(S) == CHOOSE x \in S : \A y \in S : y <= x

RECURSIVE SumF(_, _)
\* f[0] + ... + f[n-1] (jnp.sum / np.sum over one axis)
SumF(f, n) == IF n = 0 THEN 0 ELSE f[n - 1] + SumF(f, n - 1)

\* a rational in lowest terms
Rat(n, d) == LET g == GCD(Abs(n), d) IN [num |-> n \div g, den |-> d \div g]

\* a > b for rationals (the float comparison `a > b`)
RatGT(a, b) == a.num * b.den > b.num * a.den

\* a = b for rationals
RatEQ(a, b) == a.num * b.den = b.num * a.den

\* a * b for rationals
RatMul(a, b) == Rat(a.num * b.num, a.den * b.den)

\* a + 1
RatPlusOne(a) == [num |-> a.num + a.den, den |-> a.den]

\* the function f with every entry computed once and stored (a function
\* expression is otherwise re-evaluated at each application)
Stored(f) == LET g == f IN IF g = g THEN g ELSE g

\* the 0-based array holding the entries of a sequence
Arr(s) == [k \in 0..(Len(s) - 1) |-> s[k + 1]]

\* index pairs <<i, j>> of an Ny x Nz array
Idx(sizes) == (0..(sizes[1] - 1)) \X (0..(sizes[2] - 1))

RECURSIVE GCDSet(_, _)
\* gcd of g and the absolute values of a finite set of integers
GCDSet(g, S) ==
    IF S = {} \/ g = 1 THEN g
    ELSE LET x == CHOOSE y \in S : TRUE IN GCDSet(GCD(g, Abs(x)), S \ {x})

\* an array over a common denominator, with the denominator made least
Reduce(w) ==
    LET v == [num |-> Stored(w.num), den |-> w.den]
        g == GCDSet(v.den, {v.num[s] : s \in DOMAIN v.num})
    IN  [num |-> Stored([s \in DOMAIN v.num |-> v.num[s] \div g]), den |-> v.den \div g]

\* jnp.zeros(sizes)
Zeros(sizes) == [num |-> [s \in Idx(sizes) |-> 0], den |-> 1]

\* np.max(np.abs(x_new - x)) for two arrays of the same shape
MaxAbsDiff(x_new, x) ==
    LET g == GCD(x_new.den, x.den)
        an == x.den \div g
        ao == x_new.den \div g
    IN  Rat(SetMax({Abs(x_new.num[s] * an - x.num[s] * ao) : s \in DOMAIN x.num}),
            x_new.den * an)

\* v1 = v2 entrywise for two arrays of the same shape (their least-denominator
\* forms coincide)
ArrEQ(v1, v2) == Reduce(v1) = Reduce(v2)

\* ------------------------------------------------------------- model
\* np.linspace(y_min, y_max, y_size); the inputs drawn have an integral step
linspace(y_min, y_max, y_size) ==
    [i \in 0..(y_size - 1) |->
        IF y_size = 1 THEN y_min
        ELSE y_min + (i * (y_max - y_min)) \div (y_size - 1)]

\* create_investment_model: p holds the keyword arguments; p.mc is what
\* qe.tauchen(rho, nu, n=z_size) returns (state_values, P)
create_investment_model(p) ==
    [beta   |-> Rat(p.r.den, p.r.den + p.r.num),
     a_0    |-> p.a_0, a_1 |-> p.a_1, gamma |-> p.gamma, c |-> p.c,
     y_size |-> p.y_size, z_size |-> p.z_size,
     y_grid |-> linspace(p.y_min, p.y_max, p.y_size),
     z_grid |-> p.mc.state_values, Q |-> p.mc.P]

\* create_investment_model_jax: the bundle <<constants, sizes, arrays>>
create_investment_model_jax(p) ==
    LET model == create_investment_model(p)
    IN  << <<model.beta, model.a_0, model.a_1, model.gamma, model.c>>,
           <<model.y_size, model.z_size>>,
           <<model.y_grid, model.z_grid, model.Q>> >>

\* reward with the adjustment cost added instead of subtracted
reward_cost_added(i, j, ip, constants, arrays) ==
    LET a_0 == constants[2]
        a_1 == constants[3]
        gamma == constants[4]
        c == constants[5]
        y == arrays[1][i]
        z == arrays[2][j]
        yp == arrays[1][ip]
    IN  (a_0 - a_1 * y + z - c) * y + gamma * (yp - y) * (yp - y)

\* r[i, j, ip] of B: current reward at state y[i], shock z[j], next state y[ip]
reward(i, j, ip, constants, arrays) ==
    LET a_0 == constants[2]
        a_1 == constants[3]
        gamma == constants[4]
        c == constants[5]
        y == arrays[1][i]
        z == arrays[2][j]
        yp == arrays[1][ip]
    IN  (a_0 - a_1 * y + z - c) * y - gamma * (yp - y) * (yp - y)

\* EV summed over jp without the weights Q[j, jp]
EV_unweighted(v, j, ip, sizes, arrays) ==
    LET Q == arrays[3]
    IN  SumF([jp \in 0..(sizes[2] - 1) |-> v.num[<<ip, jp>>] * Q.den], sizes[2])

\* EV[j, ip] = sum over jp of v[ip, jp] * Q[j, jp], as a numerator over
\* v.den * Q.den
EV(v, j, ip, sizes, arrays) ==
    LET Q == arrays[3]
    IN  SumF([jp \in 0..(sizes[2] - 1) |-> v.num[<<ip, jp>>] * Q.num[j][jp]], sizes[2])

\* B without the discount factor: r[i, j, ip] + EV[j, ip]
B_undiscounted(v, constants, sizes, arrays) ==
    LET beta == constants[1]
        Q == arrays[3]
        den == v.den * beta.den * Q.den
    IN  [num |-> Stored([t \in Idx(sizes) \X (0..(sizes[1] - 1)) |->
                    reward(t[1][1], t[1][2], t[2], constants, arrays) * den
                    + beta.den * EV(v, t[1][2], t[2], sizes, arrays)]),
         den |-> den]

\* B(v)[i, j, ip] = r[i, j, ip] + beta * EV[j, ip], an Ny x Nz x Ny array
\* over the denominator v.den * beta.den * Q.den
B(v, constants, sizes, arrays) ==
    LET beta == constants[1]
        Q == arrays[3]
        den == v.den * beta.den * Q.den
    IN  [num |-> Stored([t \in Idx(sizes) \X (0..(sizes[1] - 1)) |->
                    reward(t[1][1], t[1][2], t[2], constants, arrays) * den
                    + beta.num * EV(v, t[1][2], t[2], sizes, arrays)]),
         den |-> den]

\* T(v) = jnp.max(B(v), axis=2)
T(v, constants, sizes, arrays) ==
    LET b == B(v, constants, sizes, arrays)
    IN  Reduce([num |-> [s \in Idx(sizes) |->
                    SetMax({b.num[<<s, ip>>] : ip \in 0..(sizes[1] - 1)})],
                den |-> b.den])

\* jnp.argmin in place of jnp.argmax: the first index attaining the minimum
get_greedy_argmin(v, constants, sizes, arrays) ==
    LET b == B(v, constants, sizes, arrays)
    IN  Stored([s \in Idx(sizes) |->
            CHOOSE ip \in 0..(sizes[1] - 1) :
                /\ \A iq \in 0..(sizes[1] - 1) : b.num[<<s, iq>>] >= b.num[<<s, ip>>]
                /\ \A iq \in 0..(ip - 1) : b.num[<<s, iq>>] > b.num[<<s, ip>>]])

\* the last index attaining the maximum instead of the first
get_greedy_last(v, constants, sizes, arrays) ==
    LET b == B(v, constants, sizes, arrays)
    IN  Stored([s \in Idx(sizes) |->
            CHOOSE ip \in 0..(sizes[1] - 1) :
                /\ \A iq \in 0..(sizes[1] - 1) : b.num[<<s, iq>>] <= b.num[<<s, ip>>]
                /\ \A iq \in (ip + 1)..(sizes[1] - 1) : b.num[<<s, iq>>] < b.num[<<s, ip>>]])

\* the first maximising index counted from 1 instead of 0
get_greedy_one_based(v, constants, sizes, arrays) ==
    LET b == B(v, constants, sizes, arrays)
    IN  Stored([s \in Idx(sizes) |->
            1 + CHOOSE ip \in 0..(sizes[1] - 1) :
                /\ \A iq \in 0..(sizes[1] - 1) : b.num[<<s, iq>>] <= b.num[<<s, ip>>]
                /\ \A iq \in 0..(ip - 1) : b.num[<<s, iq>>] < b.num[<<s, ip>>]])

\* jnp.argmax(B(v), axis=2): the first index attaining the maximum
get_greedy(v, constants, sizes, arrays) ==
    LET b == B(v, constants, sizes, arrays)
    IN  Stored([s \in Idx(sizes) |->
            CHOOSE ip \in 0..(sizes[1] - 1) :
                /\ \A iq \in 0..(sizes[1] - 1) : b.num[<<s, iq>>] <= b.num[<<s, ip>>]
                /\ \A iq \in 0..(ip - 1) : b.num[<<s, iq>>] < b.num[<<s, ip>>]])

\* compute_r_sigma: r_sigma[i, j] = r[i, j, sigma[i, j]], rewards under policy sigma
compute_r_sigma(sigma, constants, sizes, arrays) ==
    LET a_0 == constants[2]
        a_1 == constants[3]
        gamma == constants[4]
        c == constants[5]
        y_grid == arrays[1]
        z_grid == arrays[2]
    IN  [num |-> [s \in Idx(sizes) |->
                    LET y == y_grid[s[1]]
                        z == z_grid[s[2]]
                        yp == y_grid[sigma[s]]
                    IN  (a_0 - a_1 * y + z - c) * y - gamma * (yp - y) * (yp - y)],
         den |-> 1]

\* sum over jp of v[sigma[i, j], jp] * Q[j, jp], a numerator over v.den * Q.den
EV_sigma(v, sigma, s, sizes, arrays) ==
    LET Q == arrays[3]
    IN  SumF([jp \in 0..(sizes[2] - 1) |->
                v.num[<<sigma[s], jp>>] * Q.num[s[2]][jp]], sizes[2])

\* T_sigma(v, sigma)[i, j] = r_sigma[i, j] + beta * sum_jp v[sigma[i, j], jp] * Q[j, jp]
T_sigma(v, sigma, constants, sizes, arrays) ==
    LET beta == constants[1]
        Q == arrays[3]
        r_sigma == compute_r_sigma(sigma, constants, sizes, arrays)
        den == v.den * beta.den * Q.den
    IN  Reduce([num |-> [s \in Idx(sizes) |->
                    r_sigma.num[s] * den
                    + beta.num * EV_sigma(v, sigma, s, sizes, arrays)],
                den |-> den])

\* R_sigma with the expectation taken at the current state i instead of sigma[i, j]
R_sigma_at_current(v, sigma, constants, sizes, arrays) ==
    LET beta == constants[1]
        Q == arrays[3]
        den == v.den * beta.den * Q.den
        stay == [s \in Idx(sizes) |-> s[1]]
    IN  Reduce([num |-> [s \in Idx(sizes) |->
                    v.num[s] * beta.den * Q.den
                    - beta.num * EV_sigma(v, stay, s, sizes, arrays)],
                den |-> den])

\* R_sigma(v, sigma)[i, j] = v[i, j] - beta * sum_jp v[sigma[i, j], jp] * Q[j, jp]
R_sigma(v, sigma, constants, sizes, arrays) ==
    LET beta == constants[1]
        Q == arrays[3]
        den == v.den * beta.den * Q.den
    IN  Reduce([num |-> [s \in Idx(sizes) |->
                    v.num[s] * beta.den * Q.den
                    - beta.num * EV_sigma(v, sigma, s, sizes, arrays)],
                den |-> den])

\* compute_P_sigma with Q read as Q[jp, j]
compute_P_sigma_Q_transposed(sigma, constants, sizes, arrays) ==
    LET Q == arrays[3]
    IN  [num |-> Stored([t \in Idx(sizes) \X Idx(sizes) |->
                    (IF sigma[t[1]] = t[2][1] THEN 1 ELSE 0) * Q.num[t[2][2]][t[1][2]]]),
         den |-> Q.den]

\* compute_P_sigma: P_sigma[i, j, ip, jp] = (sigma[i, j] == ip) * Q[j, jp],
\* numerators over Q.den
compute_P_sigma(sigma, constants, sizes, arrays) ==
    LET Q == arrays[3]
    IN  [num |-> Stored([t \in Idx(sizes) \X Idx(sizes) |->
                    (IF sigma[t[1]] = t[2][1] THEN 1 ELSE 0) * Q.num[t[1][2]][t[2][2]]]),
         den |-> Q.den]

\* jnp.reshape to a single index: the pair <<i, j>> held at position m = i * z_size + j
unflatten(m, sizes) == <<m \div sizes[2], m % sizes[2]>>

\* a / b for an integer b # 0 that divides a
ExactDiv(a, b) == IF b < 0 THEN (-a) \div (-b) ELSE a \div b

\* rows k and p of M exchanged
SwapRows(M, k, p) ==
    Stored([e \in DOMAIN M |->
                IF e[1] = k THEN M[<<p, e[2]>>]
                ELSE IF e[1] = p THEN M[<<k, e[2]>>] ELSE M[e]])

RECURSIVE Eliminate(_, _, _, _)
\* Elimination with partial pivoting on the n x (n+1) integer matrix M = [A | b],
\* columns k..n-1 still to do, kept free of fractions: every entry is divided
\* by the previous pivot prev, which divides it.  At the end every diagonal
\* entry is the last pivot d and x[m] = M[m, n] / d.
Eliminate(M, k, prev, n) ==
    IF k = n THEN [singular |-> FALSE, M |-> M]
    ELSE LET big == SetMax({Abs(M[<<i, k>>]) : i \in k..(n - 1)})
         IN  IF big = 0 THEN [singular |-> TRUE, M |-> M]
             ELSE LET p == CHOOSE i \in k..(n - 1) :
                                /\ Abs(M[<<i, k>>]) = big
                                /\ \A q \in k..(i - 1) : Abs(M[<<q, k>>]) < big
                      Ms == SwapRows(M, k, p)
                      piv == Ms[<<k, k>>]
                      M2 == Stored([e \in DOMAIN M |->
                                IF e[1] = k THEN Ms[e]
                                ELSE ExactDiv(piv * Ms[e] - Ms[<<e[1], k>>] * Ms[<<k, e[2]>>],
                                              prev)])
                  IN  Eliminate(M2, k + 1, piv, n)

\* jnp.linalg.solve(np.identity(n) - beta * P_sigma, b) for a flattened
\* right-hand side b over the denominator b.den; the result reshaped to
\* (y_size, z_size).  A singular matrix yields the all-NaN array (den = 0).
solve(P_sigma, b, constants, sizes) ==
    LET beta == constants[1]
        n == sizes[1] * sizes[2]
        D == beta.den * P_sigma.den
        M == Stored([e \in (0..(n - 1)) \X (0..n) |->
                IF e[2] = n THEN b.num[unflatten(e[1], sizes)] * D
                ELSE (IF e[1] = e[2] THEN D ELSE 0)
                     - beta.num * P_sigma.num[<<unflatten(e[1], sizes), unflatten(e[2], sizes)>>]])
        res == Eliminate(M, 0, 1, n)
        d == res.M[<<n - 1, n - 1>>]
        sgn == IF d < 0 THEN -1 ELSE 1
    IN  IF res.singular THEN [num |-> [s \in Idx(sizes) |-> 0], den |-> 0]
        ELSE Reduce([num |-> [s \in Idx(sizes) |->
                                sgn * res.M[<<s[1] * sizes[2] + s[2], n>>]],
                     den |-> sgn * d * b.den])

\* get_value_matrix_version: v_sigma = (I - beta P_sigma)^{-1} r_sigma on the flattened state
get_value_matrix_version(sigma, constants, sizes, arrays) ==
    LET r_sigma == compute_r_sigma(sigma, constants, sizes, arrays)
        P_sigma == compute_P_sigma(sigma, constants, sizes, arrays)
    IN  solve(P_sigma, r_sigma, constants, sizes)

\* T_sigma_matrix_version with v flattened column by column (position
\* m = i + j * y_size) while P_sigma is flattened row by row
T_sigma_matrix_version_column_major(v, sigma, constants, sizes, arrays) ==
    LET beta == constants[1]
        r_sigma == compute_r_sigma(sigma, constants, sizes, arrays)
        P_sigma == compute_P_sigma(sigma, constants, sizes, arrays)
        n == sizes[1] * sizes[2]
        den == v.den * beta.den * P_sigma.den
        row(m) == SumF([mp \in 0..(n - 1) |->
                          P_sigma.num[<<unflatten(m, sizes), unflatten(mp, sizes)>>]
                          * v.num[<<mp % sizes[1], mp \div sizes[1]>>]], n)
    IN  Reduce([num |-> [s \in Idx(sizes) |->
                    r_sigma.num[s] * den + beta.num * row(s[1] * sizes[2] + s[2])],
                den |-> den])

\* T_sigma_matrix_version: new_v = r_sigma + beta * P_sigma @ v on the flattened state
T_sigma_matrix_version(v, sigma, constants, sizes, arrays) ==
    LET beta == constants[1]
        r_sigma == compute_r_sigma(sigma, constants, sizes, arrays)
        P_sigma == compute_P_sigma(sigma, constants, sizes, arrays)
        n == sizes[1] * sizes[2]
        den == v.den * beta.den * P_sigma.den
        row(m) == SumF([mp \in 0..(n - 1) |->
                          P_sigma.num[<<unflatten(m, sizes), unflatten(mp, sizes)>>]
                          * v.num[unflatten(mp, sizes)]], n)
    IN  Reduce([num |-> [s \in Idx(sizes) |->
                    r_sigma.num[s] * den + beta.num * row(s[1] * sizes[2] + s[2])],
                den |-> den])

\* Denominator of the relative tolerance of the iterative linear solver
\* (the tol argument of jax.scipy.sparse.linalg.bicgstab, left at its default
\* by get_value).
SolverTolDen == 100

\* tol of bicgstab
bicgstab_tol == [num |-> 1, den |-> SolverTolDen]

\* sum of the squares of the entries of an array, as a rational
NormSq(v) ==
    LET ss == DOMAIN v.num
        n == Cardinality(ss)
        e == CHOOSE f \in [0..(n - 1) -> ss] : \A a, b \in 0..(n - 1) : a # b => f[a] # f[b]
    IN  [num |-> SumF([k \in 0..(n - 1) |-> v.num[e[k]] * v.num[e[k]]], n),
         den |-> v.den * v.den]

\* b - x entrywise
ArrSub(b, x) ==
    Reduce([num |-> [s \in DOMAIN b.num |-> b.num[s] * x.den - x.num[s] * b.den],
            den |-> b.den * x.den])

\* b + t * e entrywise, t a rational, e an array with integer entries
ArrAddScaled(b, t, e) ==
    Reduce([num |-> [s \in DOMAIN b.num |-> b.num[s] * t.den + t.num * e[s] * b.den],
            den |-> b.den * t.den])

\* The stopping rule of bicgstab: ||b - A x|| <= tol * ||b|| in the 2-norm,
\* with A x supplied by the caller
bicgstab_converged(Ax, b) ==
    LET res == NormSq(ArrSub(b, Ax))
        nb == NormSq(b)
    IN  ~RatGT([num |-> res.num * bicgstab_tol.den * bicgstab_tol.den, den |-> res.den],
               [num |-> nb.num * bicgstab_tol.num * bicgstab_tol.num, den |-> nb.den])

\* residuals the iterative solver may stop with: none, or tol * b[m] in one entry m
Residuals(b) ==
    {[s \in DOMAIN b.num |-> 0]}
    \cup {[s \in DOMAIN b.num |-> IF s = m THEN sg * b.num[m] ELSE 0] :
            m \in DOMAIN b.num, sg \in {-1, 1}}

\* get_value: jax.scipy.sparse.linalg.bicgstab(partial_R_sigma, r_sigma)[0].  The
\* solver returns an array x whose residual r_sigma - R_sigma(x) passes its
\* stopping rule; the arrays it may return are the solutions of
\* R_sigma x = r_sigma + e for the residuals e above.
get_value(sigma, constants, sizes, arrays) ==
    LET r_sigma == compute_r_sigma(sigma, constants, sizes, arrays)
        P_sigma == compute_P_sigma(sigma, constants, sizes, arrays)
    IN  { x \in { solve(P_sigma, ArrAddScaled(r_sigma, bicgstab_tol, e), constants, sizes) :
                    e \in Residuals(r_sigma) } :
            bicgstab_converged(R_sigma(x, sigma, constants, sizes, arrays), r_sigma) }

\* the error of policy_iteration taken at the first entry only
PolicyError_first_entry(sigma_new, sigma) ==
    Abs(sigma_new[<<0, 0>>] - sigma[<<0, 0>>])

\* jnp.max(np.abs(sigma_new - sigma)) for two index arrays
PolicyError(sigma_new, sigma) ==
    SetMax({Abs(sigma_new[s] - sigma[s]) : s \in DOMAIN sigma})

RECURSIVE Iterate_regreedy(_, _, _, _, _, _, _)
\* the inner loop with sigma recomputed from v before every application
Iterate_regreedy(m, v, sigma, matrix_version, constants, sizes, arrays) ==
    IF m <= 0 THEN v
    ELSE LET s == get_greedy(v, constants, sizes, arrays)
         IN  Iterate_regreedy(m - 1,
                 IF matrix_version
                 THEN T_sigma_matrix_version(v, s, constants, sizes, arrays)
                 ELSE T_sigma(v, s, constants, sizes, arrays),
                 sigma, matrix_version, constants, sizes, arrays)

RECURSIVE Iterate_once_more(_, _, _, _, _, _, _)
\* the inner loop over range(m + 1)
Iterate_once_more(m, v, sigma, matrix_version, constants, sizes, arrays) ==
    IF m < 0 THEN v
    ELSE Iterate_once_more(m - 1,
                 IF matrix_version
                 THEN T_sigma_matrix_version(v, sigma, constants, sizes, arrays)
                 ELSE T_sigma(v, sigma, constants, sizes, arrays),
                 sigma, matrix_version, constants, sizes, arrays)

RECURSIVE Iterate_at_least_once(_, _, _, _, _, _, _)
\* the inner loop as a do-while: one application even when m <= 0
Iterate_at_least_once(m, v, sigma, matrix_version, constants, sizes, arrays) ==
    LET w == IF matrix_version
             THEN T_sigma_matrix_version(v, sigma, constants, sizes, arrays)
             ELSE T_sigma(v, sigma, constants, sizes, arrays)
    IN  IF m <= 1 THEN w
        ELSE Iterate_at_least_once(m - 1, w, sigma, matrix_version, constants, sizes, arrays)

RECURSIVE Iterate(_, _, _, _, _, _, _)
\* for _ in range(m): v = _T_sigma(v, sigma, constants, sizes, arrays)
Iterate(m, v, sigma, matrix_version, constants, sizes, arrays) ==
    IF m <= 0 THEN v
    ELSE Iterate(m - 1,
                 IF matrix_version
                 THEN T_sigma_matrix_version(v, sigma, constants, sizes, arrays)
                 ELSE T_sigma(v, sigma, constants, sizes, arrays),
                 sigma, matrix_version, constants, sizes, arrays)

\* --------------------------------------------------------- inputs drawn
\* outputs of qe.tauchen: a shock grid and a row-stochastic matrix
MarkovChains ==
    { [state_values |-> Arr(<<-1, 1>>),
       P |-> [num |-> Arr(<<Arr(<<1, 1>>), Arr(<<1, 1>>)>>), den |-> 2]],
      [state_values |-> Arr(<<-1, 1>>),
       P |-> [num |-> Arr(<<Arr(<<1, 0>>), Arr(<<0, 1>>)>>), den |-> 1]],
      [state_values |-> Arr(<<0, 2>>),
       P |-> [num |-> Arr(<<Arr(<<1, 1>>), Arr(<<0, 2>>)>>), den |-> 2]] }

\* keyword arguments of create_investment_model
ModelParams ==
    { [r |-> [num |-> 1, den |-> 1], a_0 |-> a, a_1 |-> 1, gamma |-> g, c |-> 1,
       y_min |-> yy[1], y_max |-> yy[2], y_size |-> yy[3], z_size |-> 2, mc |-> mc] :
        a \in {4, 5}, g \in {0, 1}, yy \in {<<0, 2, 3>>, <<1, 2, 2>>}, mc \in MarkovChains }

\* tolerances handed to the solvers
Tolerances == { [num |-> 0, den |-> 1], [num |-> 1, den |-> 2], [num |-> 2, den |-> 1],
                [num |-> 4, den |-> 1], [num |-> 8, den |-> 1] }

\* keyword arguments of the models T is probed on: beta = 1/2, 2/3, 1/3
ProbeParams ==
    { [r |-> rr, a_0 |-> 4, a_1 |-> 1, gamma |-> g, c |-> 1,
       y_min |-> 1, y_max |-> 2, y_size |-> 2, z_size |-> 2, mc |-> mc] :
        rr \in { [num |-> 1, den |-> 1], [num |-> 1, den |-> 2], [num |-> 2, den |-> 1] },
        g \in {0, 1}, mc \in MarkovChains }

\* keyword arguments create_investment_model accepts although the discount
\* factor they give is not in (0,1): r = 0 (beta = 1) and r = -1/2 (beta = 2)
UnvalidatedParams ==
    { [r |-> rr, a_0 |-> 4, a_1 |-> 1, gamma |-> g, c |-> 1,
       y_min |-> 1, y_max |-> 2, y_size |-> 2, z_size |-> 2, mc |-> mc] :
        rr \in { [num |-> 0, den |-> 1], [num |-> -1, den |-> 2] },
        g \in {0, 1}, mc \in MarkovChains }

VARIABLES
    model,        \* <<constants, sizes, arrays>>, built once and shared by the solvers
    pi_matrix,    \* policy_iteration: matrix_version
    pi_sigma,     \* policy_iteration: sigma
    pi_error,     \* policy_iteration: error
    pi_i,         \* policy_iteration: i
    pi_pc,        \* "loop" | "done"
    pi_out,       \* policy_iteration's return value (<<>> before it returns)
    vi_tol,       \* value_iteration: tol
    vi_max_iter,  \* successive_approx: max_iter
    vi_x,         \* successive_approx: x
    vi_error,     \* successive_approx: error
    vi_k,         \* successive_approx: k
    vi_pc,        \* "idle" | "loop" | "done"
    vi_warned,    \* successive_approx printed its warning
    vi_out,       \* value_iteration's return value (<<>> before it returns)
    opi_tol,      \* optimistic_policy_iteration: tol
    opi_m,        \* optimistic_policy_iteration: m
    opi_matrix,   \* optimistic_policy_iteration: matrix_version
    opi_v,        \* optimistic_policy_iteration: v
    opi_last_v,   \* optimistic_policy_iteration: last_v
    opi_sigma,    \* optimistic_policy_iteration: sigma
    opi_error,    \* optimistic_policy_iteration: error
    opi_loops,    \* passes of the while loop made so far
    opi_pc,       \* "idle" | "loop" | "done"
    opi_out,      \* optimistic_policy_iteration's return value (<<>> before it returns)
    probe_pc,     \* "off" | "idle" | "T": a direct call of T on two arrays
    probe_v1,     \* first argument array
    probe_v2,     \* second argument array
    probe_Tv1,    \* T(probe_v1)
    probe_Tv2,    \* T(probe_v2)
    probe_sigma,  \* the policy handed to a direct call of compute_P_sigma
    probe_P       \* compute_P_sigma(probe_sigma)

pi_vars == <<pi_matrix, pi_sigma, pi_error, pi_i, pi_pc, pi_out>>
vi_vars == <<vi_tol, vi_max_iter, vi_x, vi_error, vi_k, vi_pc, vi_warned, vi_out>>
opi_vars == <<opi_tol, opi_m, opi_matrix, opi_v, opi_last_v, opi_sigma, opi_error,
              opi_loops, opi_pc, opi_out>>
probe_vars == <<probe_pc, probe_v1, probe_v2, probe_Tv1, probe_Tv2, probe_sigma, probe_P>>
vars == <<model, pi_vars, vi_vars, opi_vars, probe_vars>>

constants == model[1]
sizes == model[2]
arrays == model[3]

\* a rational that stands for "not assigned"
NoRat == [num |-> 0, den |-> 1]

\* The state after the model is built and policy_iteration is entered (the
\* first test cell); value_iteration and optimistic_policy_iteration are not
\* yet called.
Init ==
    /\ model \in {create_investment_model_jax(p) : p \in ModelParams}
    /\ pi_matrix \in BOOLEAN
    /\ pi_sigma = [s \in Idx(sizes) |-> 0]
    /\ pi_error = 1
    /\ pi_i = 0
    /\ pi_pc = "loop"
    /\ pi_out = <<>>
    /\ vi_tol = NoRat /\ vi_max_iter = 0 /\ vi_x = <<>> /\ vi_error = NoRat
    /\ vi_k = 0 /\ vi_pc = "idle" /\ vi_warned = FALSE /\ vi_out = <<>>
    /\ opi_tol = NoRat /\ opi_m = 0 /\ opi_matrix = FALSE /\ opi_v = <<>>
    /\ opi_last_v = <<>> /\ opi_sigma = <<>> /\ opi_error = NoRat
    /\ opi_loops = 0 /\ opi_pc = "idle" /\ opi_out = <<>>
    /\ probe_pc = "off" /\ probe_v1 = <<>> /\ probe_v2 = <<>>
    /\ probe_Tv1 = <<>> /\ probe_Tv2 = <<>>
    /\ probe_sigma = <<>> /\ probe_P = <<>>

\* the arrays _get_value(sigma, ...) may return
Evaluate(sigma, matrix_version) ==
    IF matrix_version
    THEN {get_value_matrix_version(sigma, constants, sizes, arrays)}
    ELSE get_value(sigma, constants, sizes, arrays)

\* the loop of policy_iteration continued only while the error exceeds one index
pi_continue_coarse == pi_error > 1

\* while error > 0
pi_continue == pi_error > 0

\* a pass of policy_iteration that computes error but leaves sigma as it was
PIStep_sigma_kept ==
    /\ pi_pc = "loop"
    /\ pi_continue
    /\ pi_i < MaxPasses
    /\ \E v_sigma \in Evaluate(pi_sigma, pi_matrix) :
         LET sigma_new == get_greedy(v_sigma, constants, sizes, arrays)
         IN  /\ pi_error' = PolicyError(sigma_new, pi_sigma)
             /\ pi_sigma' = pi_sigma
    /\ pi_i' = pi_i + 1
    /\ UNCHANGED <<model, pi_matrix, pi_pc, pi_out, vi_vars, opi_vars, probe_vars>>

\* one pass of the while loop of policy_iteration; v_sigma and sigma_new are
\* dead once the pass ends
PIStep ==
    /\ pi_pc = "loop"
    /\ pi_continue
    /\ pi_i < MaxPasses
    /\ \E v_sigma \in Evaluate(pi_sigma, pi_matrix) :
         LET sigma_new == get_greedy(v_sigma, constants, sizes, arrays)
         IN  /\ pi_error' = PolicyError(sigma_new, pi_sigma)
             /\ pi_sigma' = sigma_new
    /\ pi_i' = pi_i + 1
    /\ UNCHANGED <<model, pi_matrix, pi_pc, pi_out, vi_vars, opi_vars, probe_vars>>

\* the loop of policy_iteration ends and sigma is returned; the locals of the
\* call are gone
PIReturn ==
    /\ pi_pc = "loop"
    /\ ~pi_continue
    /\ pi_out' = pi_sigma
    /\ pi_pc' = "done"
    /\ pi_sigma' = <<>> /\ pi_error' = 0 /\ pi_i' = 0
    /\ UNCHANGED <<model, pi_matrix, vi_vars, opi_vars, probe_vars>>

\* value_iteration(model, tol) is called and successive_approx is entered
VICall ==
    /\ vi_pc = "idle"
    /\ vi_tol' \in Tolerances
    /\ vi_max_iter' \in 1..MaxIterBound
    /\ vi_x' = Zeros(sizes)
    /\ vi_error' = RatPlusOne(vi_tol')
    /\ vi_k' = 1
    /\ vi_pc' = "loop"
    /\ UNCHANGED <<model, pi_vars, vi_warned, vi_out, opi_vars, probe_vars>>

\* the loop of successive_approx continued while error >= tolerance
vi_continue_at_equal == (~(vi_error.num * vi_tol.den < vi_tol.num * vi_error.den))
                        /\ vi_k <= vi_max_iter

\* while error > tolerance and k <= max_iter
vi_continue == RatGT(vi_error, vi_tol) /\ vi_k <= vi_max_iter

\* a pass of successive_approx that also writes to the shared bundle (a_0 += 1)
VIIterate_writes_model ==
    /\ vi_pc = "loop"
    /\ vi_continue
    /\ LET x_new == T(vi_x, constants, sizes, arrays)
       IN  /\ vi_error' = MaxAbsDiff(x_new, vi_x)
           /\ vi_x' = x_new
    /\ vi_k' = vi_k + 1
    /\ model' = [model EXCEPT ![1][2] = @ + 1]
    /\ UNCHANGED <<pi_vars, vi_tol, vi_max_iter, vi_pc, vi_warned, vi_out, opi_vars,
                   probe_vars>>

\* one pass of the while loop of successive_approx
VIIterate ==
    /\ vi_pc = "loop"
    /\ vi_continue
    /\ LET x_new == T(vi_x, constants, sizes, arrays)
       IN  /\ vi_error' = MaxAbsDiff(x_new, vi_x)
           /\ vi_x' = x_new
    /\ vi_k' = vi_k + 1
    /\ UNCHANGED <<model, pi_vars, vi_tol, vi_max_iter, vi_pc, vi_warned, vi_out, opi_vars,
                   probe_vars>>

\* the end of successive_approx with the warning tied to the cap instead of
\* the error
VIReturn_warn_at_cap ==
    /\ vi_pc = "loop"
    /\ ~vi_continue
    /\ vi_warned' = (vi_k > vi_max_iter)
    /\ vi_out' = get_greedy(vi_x, constants, sizes, arrays)
    /\ vi_pc' = "done"
    /\ vi_tol' = NoRat /\ vi_max_iter' = 0 /\ vi_x' = <<>> /\ vi_error' = NoRat /\ vi_k' = 0
    /\ UNCHANGED <<model, pi_vars, opi_vars, probe_vars>>

\* the loop of successive_approx ends, the warning is printed or not, and
\* value_iteration returns get_greedy(v_star); the locals of the call are gone
VIReturn ==
    /\ vi_pc = "loop"
    /\ ~vi_continue
    /\ vi_warned' = RatGT(vi_error, vi_tol)
    /\ vi_out' = get_greedy(vi_x, constants, sizes, arrays)
    /\ vi_pc' = "done"
    /\ vi_tol' = NoRat /\ vi_max_iter' = 0 /\ vi_x' = <<>> /\ vi_error' = NoRat /\ vi_k' = 0
    /\ UNCHANGED <<model, pi_vars, opi_vars, probe_vars>>

\* optimistic_policy_iteration(model, tol, m, matrix_version) is called
OPICall ==
    /\ opi_pc = "idle"
    /\ opi_tol' \in Tolerances
    /\ opi_m' \in -1..MaxM
    /\ opi_matrix' \in BOOLEAN
    /\ opi_v' = Zeros(sizes)
    /\ opi_error' = RatPlusOne(opi_tol')
    /\ opi_pc' = "loop"
    /\ UNCHANGED <<model, pi_vars, vi_vars, opi_last_v, opi_sigma, opi_loops, opi_out,
                   probe_vars>>

\* while error > tol
opi_continue == RatGT(opi_error, opi_tol)

\* one pass of the while loop of optimistic_policy_iteration
OPIStep ==
    /\ opi_pc = "loop"
    /\ opi_continue
    /\ opi_loops < MaxLoops
    /\ LET sigma == get_greedy(opi_v, constants, sizes, arrays)
           v == Iterate(opi_m, opi_v, sigma, opi_matrix, constants, sizes, arrays)
       IN  /\ opi_last_v' = opi_v
           /\ opi_sigma' = sigma
           /\ opi_v' = v
           /\ opi_error' = MaxAbsDiff(v, opi_v)
    /\ opi_loops' = opi_loops + 1
    /\ UNCHANGED <<model, pi_vars, vi_vars, opi_tol, opi_m, opi_matrix, opi_pc, opi_out,
                   probe_vars>>

\* the loop of optimistic_policy_iteration ends and get_greedy(v) is returned
OPIReturn ==
    /\ opi_pc = "loop"
    /\ ~opi_continue
    /\ opi_out' = get_greedy(opi_v, constants, sizes, arrays)
    /\ opi_pc' = "done"
    /\ UNCHANGED <<model, pi_vars, vi_vars, opi_tol, opi_m, opi_matrix, opi_v, opi_last_v,
                   opi_sigma, opi_error, opi_loops, probe_vars>>

\* The test cells run the solvers one after the other on the same model:
\* policy_iteration, then value_iteration, then optimistic_policy_iteration.
Next ==
    \/ PIStep
    \/ PIReturn
    \/ (pi_pc = "done" /\ VICall)
    \/ VIIterate
    \/ VIReturn
    \/ (vi_pc = "done" /\ OPICall)
    \/ OPIStep
    \/ OPIReturn

Spec == Init /\ [][Next]_vars

\* ------------------------------------- models built from any arguments
\* The state after create_investment_model_jax has built a model from
\* arguments it does not validate and policy_iteration (direct evaluation) is
\* entered; the solvers then run as in the test cells.
InitUnvalidated ==
    /\ model \in {create_investment_model_jax(p) : p \in UnvalidatedParams}
    /\ pi_matrix = TRUE
    /\ pi_sigma = [s \in Idx(sizes) |-> 0]
    /\ pi_error = 1
    /\ pi_i = 0
    /\ pi_pc = "loop"
    /\ pi_out = <<>>
    /\ vi_tol = NoRat /\ vi_max_iter = 0 /\ vi_x = <<>> /\ vi_error = NoRat
    /\ vi_k = 0 /\ vi_pc = "idle" /\ vi_warned = FALSE /\ vi_out = <<>>
    /\ opi_tol = NoRat /\ opi_m = 0 /\ opi_matrix = FALSE /\ opi_v = <<>>
    /\ opi_last_v = <<>> /\ opi_sigma = <<>> /\ opi_error = NoRat
    /\ opi_loops = 0 /\ opi_pc = "idle" /\ opi_out = <<>>
    /\ probe_pc = "off" /\ probe_v1 = <<>> /\ probe_v2 = <<>>
    /\ probe_Tv1 = <<>> /\ probe_Tv2 = <<>>
    /\ probe_sigma = <<>> /\ probe_P = <<>>

SpecUnvalidated == InitUnvalidated /\ [][Next]_vars

\* ----------------------------------- solves interleaved on one bundle
\* keyword arguments of the bundles shared by interleaved solves
SharedParams ==
    { [r |-> [num |-> 1, den |-> 1], a_0 |-> 4, a_1 |-> 1, gamma |-> 1, c |-> 1,
       y_min |-> 1, y_max |-> 2, y_size |-> 2, z_size |-> 2, mc |-> mc] :
        mc \in MarkovChains }

\* One bundle is built; policy_iteration is entered with the direct
\* evaluation (whose result is a function of the bundle), and value_iteration
\* and optimistic_policy_iteration are called on the same bundle at any time.
InitShared ==
    /\ model \in {create_investment_model_jax(p) : p \in SharedParams}
    /\ pi_matrix = TRUE
    /\ pi_sigma = [s \in Idx(sizes) |-> 0]
    /\ pi_error = 1
    /\ pi_i = 0
    /\ pi_pc = "loop"
    /\ pi_out = <<>>
    /\ vi_tol = NoRat /\ vi_max_iter = 0 /\ vi_x = <<>> /\ vi_error = NoRat
    /\ vi_k = 0 /\ vi_pc = "idle" /\ vi_warned = FALSE /\ vi_out = <<>>
    /\ opi_tol = NoRat /\ opi_m = 0 /\ opi_matrix = FALSE /\ opi_v = <<>>
    /\ opi_last_v = <<>> /\ opi_sigma = <<>> /\ opi_error = NoRat
    /\ opi_loops = 0 /\ opi_pc = "idle" /\ opi_out = <<>>
    /\ probe_pc = "off" /\ probe_v1 = <<>> /\ probe_v2 = <<>>
    /\ probe_Tv1 = <<>> /\ probe_Tv2 = <<>>
    /\ probe_sigma = <<>> /\ probe_P = <<>>

\* the steps of the three solves in any order, none waiting for another
NextShared ==
    \/ PIStep
    \/ PIReturn
    \/ VICall
    \/ VIIterate
    \/ VIReturn
    \/ OPICall
    \/ OPIStep
    \/ OPIReturn

SpecShared == InitShared /\ [][NextShared]_vars

RECURSIVE successive_approx(_, _, _, _, _)
\* successive_approx run on its own from x with the given error and k
successive_approx(x, error, k, tolerance, max_iter) ==
    IF RatGT(error, tolerance) /\ k <= max_iter
    THEN LET x_new == T(x, constants, sizes, arrays)
         IN  successive_approx(x_new, MaxAbsDiff(x_new, x), k + 1, tolerance, max_iter)
    ELSE x

\* value_iteration(model, tol) run on its own
value_iteration(tol, max_iter) ==
    get_greedy(successive_approx(Zeros(sizes), RatPlusOne(tol), 1, tol, max_iter),
               constants, sizes, arrays)

RECURSIVE policy_iteration_from(_, _, _, _)
\* the policies policy_iteration may return, run on its own from sigma with
\* the given error after i passes (none if MaxPasses passes do not end it)
policy_iteration_from(sigma, error, i, matrix_version) ==
    IF error > 0
    THEN IF i < MaxPasses
         THEN UNION { LET sigma_new == get_greedy(v_sigma, constants, sizes, arrays)
                      IN  policy_iteration_from(sigma_new, PolicyError(sigma_new, sigma),
                                                i + 1, matrix_version) :
                      v_sigma \in Evaluate(sigma, matrix_version) }
         ELSE {}
    ELSE {sigma}

\* policy_iteration(model, matrix_version) run on its own
policy_iteration(matrix_version) ==
    policy_iteration_from([s \in Idx(sizes) |-> 0], 1, 0, matrix_version)

RECURSIVE optimistic_policy_iteration_from(_, _, _, _, _, _)
\* optimistic_policy_iteration run on its own from v with the given error
\* after a number of passes
optimistic_policy_iteration_from(v, error, loops, tol, m, matrix_version) ==
    IF RatGT(error, tol) /\ loops < MaxLoops
    THEN LET sigma == get_greedy(v, constants, sizes, arrays)
             v_new == Iterate(m, v, sigma, matrix_version, constants, sizes, arrays)
         IN  optimistic_policy_iteration_from(v_new, MaxAbsDiff(v_new, v), loops + 1,
                                              tol, m, matrix_version)
    ELSE get_greedy(v, constants, sizes, arrays)

\* optimistic_policy_iteration(model, tol, m, matrix_version) run on its own
optimistic_policy_iteration(tol, m, matrix_version) ==
    optimistic_policy_iteration_from(Zeros(sizes), RatPlusOne(tol), 0, tol, m,
                                     matrix_version)

\* a further pass of policy_iteration can be made
PIStepEnabled == pi_pc = "loop" /\ pi_continue /\ pi_i < MaxPasses

\* The test cells with the interpreter going on with policy_iteration while
\* it has a step to take: weak fairness of PIReturn and of PIStep, the latter
\* written out with PIStepEnabled, which is when PIStep can be taken.
SpecFair ==
    /\ Spec
    /\ WF_vars(PIReturn)
    /\ ([]<>(~PIStepEnabled) \/ []<><<PIStep>>_vars)

\* ------------------------------------------------- T called on its own
\* value arrays with entries 0..ValBound
ProbeArrays == [Idx(sizes) -> 0..ValBound]

\* entrywise displacements between the two arrays handed to T
ProbeShifts == [Idx(sizes) -> -1..1]

\* The state after a model is built and before any solver is called.
InitT ==
    /\ model \in {create_investment_model_jax(p) : p \in ProbeParams}
    /\ pi_matrix = FALSE /\ pi_sigma = <<>> /\ pi_error = 0 /\ pi_i = 0
    /\ pi_pc = "idle" /\ pi_out = <<>>
    /\ vi_tol = NoRat /\ vi_max_iter = 0 /\ vi_x = <<>> /\ vi_error = NoRat
    /\ vi_k = 0 /\ vi_pc = "idle" /\ vi_warned = FALSE /\ vi_out = <<>>
    /\ opi_tol = NoRat /\ opi_m = 0 /\ opi_matrix = FALSE /\ opi_v = <<>>
    /\ opi_last_v = <<>> /\ opi_sigma = <<>> /\ opi_error = NoRat
    /\ opi_loops = 0 /\ opi_pc = "idle" /\ opi_out = <<>>
    /\ probe_pc = "idle" /\ probe_v1 = <<>> /\ probe_v2 = <<>>
    /\ probe_Tv1 = <<>> /\ probe_Tv2 = <<>>
    /\ probe_sigma = <<>> /\ probe_P = <<>>

\* T(v1, constants, sizes, arrays) and T(v2, constants, sizes, arrays) for two
\* value arrays
ProbeT ==
    /\ probe_pc = "idle"
    /\ \E a \in ProbeArrays, d \in ProbeShifts :
         LET v1 == [num |-> a, den |-> 1]
             v2 == [num |-> [s \in Idx(sizes) |-> a[s] + d[s]], den |-> 1]
         IN  /\ probe_v1' = v1
             /\ probe_v2' = v2
             /\ probe_Tv1' = T(v1, constants, sizes, arrays)
             /\ probe_Tv2' = T(v2, constants, sizes, arrays)
    /\ probe_pc' = "T"
    /\ UNCHANGED <<model, pi_vars, vi_vars, opi_vars, probe_sigma, probe_P>>

NextT == ProbeT

SpecT == InitT /\ [][NextT]_vars

\* ------------------------------------- compute_P_sigma called on its own
\* outputs of qe.tauchen the policies are probed with: the two-state chains
\* and a three-state chain
PolicyProbeChains ==
    MarkovChains \cup
    { [state_values |-> Arr(<<-1, 0, 1>>),
       P |-> [num |-> Arr(<<Arr(<<2, 1, 1>>), Arr(<<0, 4, 0>>), Arr(<<1, 0, 3>>)>>),
              den |-> 4]] }

\* keyword arguments of the models compute_P_sigma is probed on; z_size is the
\* number of states of the chain
PolicyProbeParams ==
    { [r |-> [num |-> 1, den |-> 1], a_0 |-> 4, a_1 |-> 1, gamma |-> 1, c |-> 1,
       y_min |-> yy[1], y_max |-> yy[2], y_size |-> yy[3],
       z_size |-> Cardinality(DOMAIN mc.state_values), mc |-> mc] :
        yy \in {<<0, 2, 3>>, <<1, 2, 2>>}, mc \in PolicyProbeChains }

\* The state after a model is built and before compute_P_sigma is called.
InitP ==
    /\ model \in {create_investment_model_jax(p) : p \in PolicyProbeParams}
    /\ pi_matrix = FALSE /\ pi_sigma = <<>> /\ pi_error = 0 /\ pi_i = 0
    /\ pi_pc = "idle" /\ pi_out = <<>>
    /\ vi_tol = NoRat /\ vi_max_iter = 0 /\ vi_x = <<>> /\ vi_error = NoRat
    /\ vi_k = 0 /\ vi_pc = "idle" /\ vi_warned = FALSE /\ vi_out = <<>>
    /\ opi_tol = NoRat /\ opi_m = 0 /\ opi_matrix = FALSE /\ opi_v = <<>>
    /\ opi_last_v = <<>> /\ opi_sigma = <<>> /\ opi_error = NoRat
    /\ opi_loops = 0 /\ opi_pc = "idle" /\ opi_out = <<>>
    /\ probe_pc = "idle" /\ probe_v1 = <<>> /\ probe_v2 = <<>>
    /\ probe_Tv1 = <<>> /\ probe_Tv2 = <<>>
    /\ probe_sigma = <<>> /\ probe_P = <<>>

\* compute_P_sigma(sigma, constants, sizes, arrays) for a policy with entries
\* in 0..y_size-1
ProbeP ==
    /\ probe_pc = "idle"
    /\ \E sigma \in [Idx(sizes) -> 0..(sizes[1] - 1)] :
         /\ probe_sigma' = sigma
         /\ probe_P' = compute_P_sigma(sigma, constants, sizes, arrays)
    /\ probe_pc' = "P"
    /\ UNCHANGED <<model, pi_vars, vi_vars, opi_vars, probe_v1, probe_v2, probe_Tv1,
                   probe_Tv2>>

NextP == ProbeP

SpecP == InitP /\ [][NextP]_vars

\* ---------------------------------------------------------------- claims
\* a < b for rationals
RatLT(a, b) == a.num * b.den < b.num * a.den

RECURSIVE TPower(_)
\* T applied n times to the all-zero array
TPower(n) == IF n = 0 THEN Zeros(sizes) ELSE T(TPower(n - 1), constants, sizes, arrays)

\* the change of the n-th application of T from the all-zero array
TChange(n) == MaxAbsDiff(TPower(n), TPower(n - 1))

\* C1 as stated: value_iteration stops only at a step whose change is strictly
\* below the tolerance, or when the iteration cap is reached.
C1_Original ==
    [][VIReturn => (RatLT(vi_error, vi_tol) \/ vi_k > vi_max_iter)]_vars

\* C1 (amended): at the head of the loop after k-1 passes, x is T applied k-1
\* times to the all-zero array, error is the change of the last pass, every
\* earlier pass had a change above the tolerance and at most max_iter passes
\* were made.
C1_LoopInv ==
    vi_pc = "loop" =>
        /\ vi_k \in 1..(vi_max_iter + 1)
        /\ ArrEQ(vi_x, TPower(vi_k - 1))
        /\ vi_k > 1 => RatEQ(vi_error, TChange(vi_k - 1))
        /\ \A n \in 1..(vi_k - 2) : RatGT(TChange(n), vi_tol)

\* C1 (amended): value_iteration starts from zeros, replaces v by T(v) at each
\* pass, makes another pass only while the last change is above the tolerance
\* and passes remain, returns as soon as the last change is at most the
\* tolerance (equal included) or the cap is reached, and returns greedy of
\* the last iterate.
C1_ValueIteration ==
    /\ []C1_LoopInv
    /\ [][VIIterate => (RatGT(vi_error, vi_tol) /\ vi_k <= vi_max_iter)]_vars
    /\ [][VIReturn => /\ vi_k > 1
                      /\ (~RatGT(vi_error, vi_tol) \/ vi_k = vi_max_iter + 1)
                      /\ vi_out' = get_greedy(TPower(vi_k - 1), constants, sizes, arrays)]_vars

\* C1 witness: a pass has ended with a change equal to the tolerance while
\* passes remain, and the loop is about to end.
C1_Witness ==
    /\ vi_pc = "loop" /\ vi_k > 1 /\ vi_k <= vi_max_iter
    /\ RatEQ(vi_error, vi_tol)

\* C2: the warning is printed exactly when the change of the last pass made is
\* above the tolerance, which happens only at the cap; the array handed back
\* is the last iterate.
C2_Warning ==
    [][VIReturn => /\ vi_warned' <=> RatGT(TChange(vi_k - 1), vi_tol)
                   /\ vi_warned' => vi_k = vi_max_iter + 1
                   /\ vi_out' = get_greedy(vi_x, constants, sizes, arrays)]_vars

\* C2 witness: value_iteration has returned at the cap with the warning printed.
C2_Witness == vi_pc = "done" /\ vi_warned

\* C2 second case reached: the tolerance is met by the last allowed pass.
C2_MetAtCap ==
    vi_pc = "loop" /\ vi_k = vi_max_iter + 1 /\ ~RatGT(vi_error, vi_tol)

\* C3: policy_iteration starts from the all-zero policy and the policy it is
\* about to return is a fixed point of evaluation followed by improvement:
\* made by at least one pass, and greedy of its evaluated value is the policy
\* itself.
C3_FixedPoint ==
    /\ (pi_pc = "loop" /\ pi_i = 0) => pi_sigma = [s \in Idx(sizes) |-> 0]
    /\ (pi_pc = "loop" /\ ~pi_continue) =>
          /\ pi_i >= 1
          /\ \E v_sigma \in Evaluate(pi_sigma, pi_matrix) :
                get_greedy(v_sigma, constants, sizes, arrays) = pi_sigma
    /\ pi_pc = "done" => pi_out \in [Idx(sizes) -> 0..(sizes[1] - 1)]

\* C3 witness: policy_iteration ends after more than one pass with a policy
\* that is not the initial one.
C3_Witness ==
    /\ pi_pc = "loop" /\ ~pi_continue /\ pi_i >= 2
    /\ pi_sigma # [s \in Idx(sizes) |-> 0]

\* the largest number of loop passes a caller would allow
CallerCap == MaxLoops - 1

\* C4 as stated: policy_iteration runs under an iteration cap and never makes
\* more passes of its loop than the cap allows (taken with the direct
\* evaluation, where every pass is determined by the model).
C4_Capped == (pi_pc = "loop" /\ pi_matrix) => pi_i <= CallerCap

RECURSIVE TsigmaPower(_, _, _)
\* T_sigma(., sigma) applied n times to v
TsigmaPower(n, v, sigma) ==
    IF n <= 0 THEN v
    ELSE T_sigma(TsigmaPower(n - 1, v, sigma), sigma, constants, sizes, arrays)

\* C5 as stated: the loop of optimistic_policy_iteration ends only with an
\* error strictly below the tolerance.
C5_Original == [][OPIReturn => RatLT(opi_error, opi_tol)]_vars

\* C5 (amended): v starts as zeros; after every pass sigma is greedy of the
\* array held at the start of the pass, v is T_sigma(., sigma) applied m
\* times to that array with that one sigma, and error is the largest
\* entrywise change over the pass.
C5_LoopInv ==
    /\ (opi_pc = "loop" /\ opi_loops = 0) => opi_v = Zeros(sizes)
    /\ (opi_pc \in {"loop", "done"} /\ opi_loops > 0) =>
          /\ opi_sigma = get_greedy(opi_last_v, constants, sizes, arrays)
          /\ ArrEQ(opi_v, TsigmaPower(opi_m, opi_last_v, opi_sigma))
          /\ RatEQ(opi_error, MaxAbsDiff(opi_v, opi_last_v))

\* C5 (amended): a pass is made only while error is above the tolerance, the
\* loop ends as soon as error is at most the tolerance (equal included), and
\* the result is greedy of the final array.
C5_OptimisticPolicyIteration ==
    /\ []C5_LoopInv
    /\ [][OPIStep => RatGT(opi_error, opi_tol)]_vars
    /\ [][OPIReturn => /\ ~RatGT(opi_error, opi_tol)
                       /\ opi_out' = get_greedy(opi_v, constants, sizes, arrays)]_vars

\* C5 witness: optimistic_policy_iteration has returned after passes of
\* m >= 1 applications that ended with error equal to a positive tolerance.
C5_Witness ==
    /\ opi_pc = "done" /\ opi_loops >= 1 /\ opi_m >= 1
    /\ opi_tol.num > 0 /\ RatEQ(opi_error, opi_tol)

\* C5 second case reached: the policy returned is not the sigma of the last pass.
C5_Recomputed ==
    opi_pc = "done" /\ opi_loops >= 1 /\ opi_m >= 1 /\ opi_out # opi_sigma

\* C6 as stated: optimistic_policy_iteration stops at an iteration cap when the
\* tolerance is not met, so it never makes more passes than the cap allows.
C6_Capped == opi_pc = "loop" => opi_loops <= CallerCap

\* state indices strictly inside the state grid
Interior(s) == 0 < s[1] /\ s[1] < sizes[1] - 1

FixedPoint(sigma) ==
    get_greedy(get_value_matrix_version(sigma, constants, sizes, arrays),
               constants, sizes, arrays) = sigma

Monotone(sigma) ==
    \A s \in Idx(sizes) : s[1] < sizes[1] - 1 => sigma[s] <= sigma[<<s[1] + 1, s[2]>>]

\* C8: the policy returned by each solver, and every policy that
\* policy_iteration and optimistic_policy_iteration hold after a greedy step,
\* is monotone in the state (the grids drawn are increasing and gamma >= 0).
C8_Monotone ==
    /\ pi_pc = "done" => Monotone(pi_out)
    /\ vi_pc = "done" => Monotone(vi_out)
    /\ opi_pc = "done" => Monotone(opi_out)
    /\ (pi_pc = "loop" /\ pi_i > 0) => Monotone(pi_sigma)
    /\ (opi_pc = "loop" /\ opi_loops > 0) => Monotone(opi_sigma)

\* C8 witness: all three solvers have returned, on a grid of three states, a
\* policy that rises with the state.
C8_Witness ==
    /\ pi_pc = "done" /\ vi_pc = "done" /\ opi_pc = "done"
    /\ sizes[1] >= 3 /\ arrays[1][0] < arrays[1][1] /\ constants[4] > 0
    /\ \E j \in 0..(sizes[2] - 1) :
          /\ pi_out[<<0, j>>] < pi_out[<<sizes[1] - 1, j>>]
          /\ vi_out[<<0, j>>] < vi_out[<<sizes[1] - 1, j>>]
          /\ opi_out[<<0, j>>] < opi_out[<<sizes[1] - 1, j>>]

\* C9: on every model drawn (beta in (0,1), Q row-stochastic with non-negative
\* entries) and every pair of value arrays, the largest entrywise distance
\* between T(v1) and T(v2) is at most beta times the largest entrywise
\* distance between v1 and v2.
C9_Contraction ==
    probe_pc = "T" =>
        ~RatGT(MaxAbsDiff(probe_Tv1, probe_Tv2),
               RatMul(constants[1], MaxAbsDiff(probe_v1, probe_v2)))

\* C9 witness: T has been applied to two different arrays whose greedy
\* policies differ, and the images differ, on a model with beta = 2/3.
C9_Witness ==
    /\ probe_pc = "T"
    /\ constants[1] = [num |-> 2, den |-> 3]
    /\ MaxAbsDiff(probe_Tv1, probe_Tv2).num > 0
    /\ get_greedy(probe_v1, constants, sizes, arrays)
          # get_greedy(probe_v2, constants, sizes, arrays)

\* C9 second case reached: the bound is attained with different greedy policies.
C9_Tight ==
    /\ probe_pc = "T"
    /\ MaxAbsDiff(probe_v1, probe_v2).num > 0
    /\ RatEQ(MaxAbsDiff(probe_Tv1, probe_Tv2),
             RatMul(constants[1], MaxAbsDiff(probe_v1, probe_v2)))
    /\ get_greedy(probe_v1, constants, sizes, arrays)
          # get_greedy(probe_v2, constants, sizes, arrays)

SolversAgree(sigma) ==
    LET beta == constants[1]
        r_sigma == compute_r_sigma(sigma, constants, sizes, arrays)
        direct == get_value_matrix_version(sigma, constants, sizes, arrays)
        iterative == get_value(sigma, constants, sizes, arrays)
    IN  /\ direct.den > 0
        /\ ArrEQ(R_sigma(direct, sigma, constants, sizes, arrays), r_sigma)
        /\ \E x \in iterative : ArrEQ(x, direct)
        /\ \A x \in iterative :
              LET Rx == R_sigma(x, sigma, constants, sizes, arrays)
              IN  /\ bicgstab_converged(Rx, r_sigma)
                  /\ ~RatGT(RatMul([num |-> beta.den - beta.num, den |-> beta.den],
                                   MaxAbsDiff(x, direct)),
                            MaxAbsDiff(r_sigma, Rx))

ValidModel ==
    LET beta == constants[1]
        Q == arrays[3]
    IN  /\ 0 < beta.num /\ beta.num < beta.den
        /\ DOMAIN arrays[1] = 0..(sizes[1] - 1)
        /\ DOMAIN arrays[2] = 0..(sizes[2] - 1)
        /\ DOMAIN Q.num = 0..(sizes[2] - 1)
        /\ \A j \in 0..(sizes[2] - 1) :
              /\ DOMAIN Q.num[j] = 0..(sizes[2] - 1)
              /\ \A jp \in 0..(sizes[2] - 1) : Q.num[j][jp] >= 0
              /\ SumF(Q.num[j], sizes[2]) = Q.den

\* C11 as stated: an invalid configuration is rejected at construction, so a
\* solver that has made a pass of its loop runs on a valid model.
C11_Rejected ==
    (pi_i >= 1 \/ vi_k > 1 \/ opi_loops >= 1) => ValidModel

\* v solves R_sigma v = r_sigma (and is an array of numbers)
IsSolution(v, sigma) ==
    /\ v.den > 0
    /\ ArrEQ(R_sigma(v, sigma, constants, sizes, arrays),
             compute_r_sigma(sigma, constants, sizes, arrays))

\* C16 as stated: policy evaluation is guarded, so every pass of
\* policy_iteration with the direct evaluation goes on with an evaluated array
\* that solves the system of its policy.
C16_Guarded ==
    [][(PIStep /\ pi_matrix) =>
          IsSolution(get_value_matrix_version(pi_sigma, constants, sizes, arrays), pi_sigma)]_vars

\* sigma is an Ny x Nz array of indices in [0, Ny)
ValidPolicy(sigma) == sigma \in [Idx(sizes) -> 0..(sizes[1] - 1)]

\* C12: the policy policy_iteration and optimistic_policy_iteration hold at
\* every step, the greedy policy of every value array a solver holds or
\* evaluates, and the policy each solver returns, have all entries in [0, Ny).
C12_ValidIndices ==
    /\ pi_pc = "loop" =>
          /\ ValidPolicy(pi_sigma)
          /\ \A v \in Evaluate(pi_sigma, pi_matrix) :
                ValidPolicy(get_greedy(v, constants, sizes, arrays))
    /\ pi_pc = "done" => ValidPolicy(pi_out)
    /\ vi_pc = "loop" => ValidPolicy(get_greedy(vi_x, constants, sizes, arrays))
    /\ vi_pc = "done" => ValidPolicy(vi_out)
    /\ (opi_pc \in {"loop", "done"} /\ opi_loops > 0) => ValidPolicy(opi_sigma)
    /\ opi_pc = "loop" => ValidPolicy(get_greedy(opi_v, constants, sizes, arrays))
    /\ opi_pc = "done" => ValidPolicy(opi_out)

\* C12 witness: on a grid of three states all three solvers have returned a
\* policy that takes the lowest index 0 at the lowest state and the highest
\* index Ny - 1 at the highest state.
C12_Witness ==
    /\ pi_pc = "done" /\ vi_pc = "done" /\ opi_pc = "done" /\ sizes[1] = 3
    /\ \E j \in 0..(sizes[2] - 1) :
          /\ pi_out[<<0, j>>] = 0 /\ pi_out[<<2, j>>] = 2
          /\ vi_out[<<0, j>>] = 0 /\ vi_out[<<2, j>>] = 2
          /\ opi_out[<<0, j>>] = 0 /\ opi_out[<<2, j>>] = 2

\* a + b for rationals
RatAdd(a, b) ==
    LET g == GCD(a.den, b.den)
    IN  Rat(a.num * (b.den \div g) + b.num * (a.den \div g), a.den * (b.den \div g))

RECURSIVE ExpectedValue(_, _, _, _)
\* sum over jp < n of v[ip, jp] * Q[j, jp], as a rational
ExpectedValue(v, j, ip, n) ==
    IF n = 0 THEN [num |-> 0, den |-> 1]
    ELSE RatAdd(ExpectedValue(v, j, ip, n - 1),
                RatMul([num |-> v.num[<<ip, n - 1>>], den |-> v.den],
                       [num |-> arrays[3].num[j][n - 1], den |-> arrays[3].den]))

\* reward(i, j, ip) + beta * sum over jp of v[ip, jp] * Q[j, jp], as a rational
BellmanValue(v, s, ip) ==
    RatAdd([num |-> reward(s[1], s[2], ip, constants, arrays), den |-> 1],
           RatMul(constants[1], ExpectedValue(v, s[2], ip, sizes[2])))

\* g is the lowest maximising index of the Bellman value at every (i, j), and
\* Tv holds the value there
FirstMaximizer(v, g, Tv) ==
    \A s \in Idx(sizes) :
        /\ g[s] \in 0..(sizes[1] - 1)
        /\ \A ip \in 0..(sizes[1] - 1) :
              ~RatGT(BellmanValue(v, s, ip), BellmanValue(v, s, g[s]))
        /\ \A ip \in 0..(g[s] - 1) :
              RatLT(BellmanValue(v, s, ip), BellmanValue(v, s, g[s]))
        /\ RatEQ([num |-> Tv.num[s], den |-> Tv.den], BellmanValue(v, s, g[s]))

\* C13: for both value arrays handed to T, get_greedy gives at every (i, j) the
\* lowest index at which reward + beta * expected value is largest, and T
\* gives the value at that index.
C13_FirstMaximizer ==
    probe_pc = "T" =>
        /\ FirstMaximizer(probe_v1, get_greedy(probe_v1, constants, sizes, arrays), probe_Tv1)
        /\ FirstMaximizer(probe_v2, get_greedy(probe_v2, constants, sizes, arrays), probe_Tv2)

\* C13 witness: for the first array two indices tie for the maximum at some
\* (i, j), where greedy is the lower one, and greedy is the higher index at
\* another (i, j).
C13_Witness ==
    /\ probe_pc = "T"
    /\ LET g == get_greedy(probe_v1, constants, sizes, arrays)
       IN  /\ \E s \in Idx(sizes) :
                 /\ g[s] = 0
                 /\ RatEQ(BellmanValue(probe_v1, s, 0), BellmanValue(probe_v1, s, 1))
           /\ \E s \in Idx(sizes) : g[s] = 1

\* T_sigma(v, sigma) and T_sigma_matrix_version(v, sigma) are the same array,
\* whose (i, j) entry is r_sigma[i, j] + beta * sum_jp v[sigma[i, j], jp] Q[j, jp]
SameOperator(v, sigma) ==
    LET multi == T_sigma(v, sigma, constants, sizes, arrays)
        flat == T_sigma_matrix_version(v, sigma, constants, sizes, arrays)
        r_sigma == compute_r_sigma(sigma, constants, sizes, arrays)
    IN  /\ ArrEQ(multi, flat)
        /\ \A s \in Idx(sizes) :
              Rat(multi.num[s], multi.den) =
                    (RatAdd([num |-> r_sigma.num[s], den |-> 1],
                           RatMul(constants[1],
                                  ExpectedValue(v, s[2], sigma[s], sizes[2]))))

\* C14: at every outer step of optimistic_policy_iteration the two operators
\* agree on the array and policy of the step (and, on the two-state grids, on
\* that array with every policy), and the array the step produced is the one
\* either setting of matrix_version produces.
C14_SameOperator ==
    (opi_pc \in {"loop", "done"} /\ opi_loops > 0) =>
        /\ SameOperator(opi_last_v, opi_sigma)
        /\ sizes[1] = 2 =>
              \A sigma \in [Idx(sizes) -> 0..(sizes[1] - 1)] : SameOperator(opi_last_v, sigma)
        /\ ArrEQ(opi_v, Iterate(opi_m, opi_last_v, opi_sigma, TRUE, constants, sizes, arrays))
        /\ ArrEQ(opi_v, Iterate(opi_m, opi_last_v, opi_sigma, FALSE, constants, sizes, arrays))

\* C14 witness: optimistic_policy_iteration with matrix_version=True has made
\* two outer steps with m >= 1 on a three-state grid with a Q that is not
\* symmetric, and holds a policy that is not constant.
C14_Witness ==
    /\ opi_pc = "loop" /\ opi_matrix /\ opi_m >= 1 /\ opi_loops >= 2
    /\ sizes[1] = 3 /\ arrays[3].num[0][1] # arrays[3].num[1][0]
    /\ \E s, t \in Idx(sizes) : opi_sigma[s] # opi_sigma[t]

\* C17: along a run of value_iteration every pass after the first has an
\* error of at most beta times the error of the pass before it, and so the
\* errors of the passes made never increase.
C17_Geometric ==
    /\ [][(VIIterate /\ vi_k > 1) =>
              ~RatGT(vi_error', RatMul(constants[1], vi_error))]_vars
    /\ [](vi_pc = "loop" =>
              \A a, b \in 1..(vi_k - 1) : a < b => ~RatGT(TChange(b), TChange(a)))

\* C17 witness: value_iteration has made at least two passes, the last with
\* an error that is positive and strictly below beta times the error before it.
C17_Witness ==
    /\ vi_pc = "loop" /\ vi_k >= 3
    /\ vi_error.num > 0
    /\ RatLT(vi_error, RatMul(constants[1], TChange(vi_k - 2)))

\* C17 second case reached: the third pass has exactly beta times the error of
\* the second.
C17_Attained ==
    /\ vi_pc = "loop" /\ vi_k = 4
    /\ vi_error.num > 0
    /\ RatEQ(vi_error, RatMul(constants[1], TChange(2)))

RECURSIVE PISeq(_)
\* the policy policy_iteration holds after k passes with the direct evaluation
PISeq(k) ==
    IF k = 0 THEN [s \in Idx(sizes) |-> 0]
    ELSE get_greedy(get_value_matrix_version(PISeq(k - 1), constants, sizes, arrays),
                    constants, sizes, arrays)

\* with the direct evaluation, the policy held after pi_i passes is the
\* pi_i-th of the sequence from the all-zero policy, and no two passes that
\* are started, started with the same policy
C18_NoRepeat ==
    (pi_pc = "loop" /\ pi_matrix) =>
        /\ pi_sigma = PISeq(pi_i)
        /\ \A a, b \in 0..pi_i :
              (a < b /\ (b < pi_i \/ pi_continue)) => PISeq(a) # PISeq(b)

\* C18: with the direct evaluation policy_iteration never starts two passes
\* with the same policy, is never cut short by the bound on passes explored,
\* and returns.
C18_Terminates ==
    /\ []C18_NoRepeat
    /\ []((pi_pc = "loop" /\ pi_matrix /\ pi_continue) => pi_i < MaxPasses)
    /\ (pi_matrix => <>(pi_pc = "done"))

\* C18 witness: policy_iteration with the direct evaluation has made three
\* passes, which started with three different policies, and is about to return.
C18_Witness ==
    /\ pi_pc = "loop" /\ pi_matrix /\ pi_i = 3 /\ ~pi_continue
    /\ PISeq(0) # PISeq(1) /\ PISeq(1) # PISeq(2) /\ PISeq(0) # PISeq(2)

\* v >= w at every entry
ArrGE(v, w) == \A s \in DOMAIN v.num : v.num[s] * w.den >= w.num[s] * v.den

\* C19: with the direct evaluation, the value of the policy a pass of
\* policy_iteration moves to is at least the value of the policy it started
\* with, at every (i, j).
C19_ValueNeverLower ==
    [][(PIStep /\ pi_matrix) =>
          ArrGE(get_value_matrix_version(pi_sigma', constants, sizes, arrays),
                get_value_matrix_version(pi_sigma, constants, sizes, arrays))]_vars

\* C19 witness: policy_iteration with the direct evaluation has made two
\* passes and the second raised the value at some (i, j).
C19_Witness ==
    /\ pi_pc = "loop" /\ pi_matrix /\ pi_i >= 2
    /\ LET before == get_value_matrix_version(PISeq(pi_i - 1), constants, sizes, arrays)
           after == get_value_matrix_version(pi_sigma, constants, sizes, arrays)
       IN  \E s \in Idx(sizes) : after.num[s] * before.den > before.num[s] * after.den

\* the first step n in 1..cap whose change TChange(n) is at most tol, and
\* cap + 1 if there is none
FirstMet(tol, cap) ==
    LET met == {n \in 1..cap : ~RatGT(TChange(n), tol)}
    IN  IF met = {} THEN cap + 1 ELSE CHOOSE n \in met : \A k \in met : n <= k

\* after the same number of passes value_iteration and
\* optimistic_policy_iteration with m = 1 hold the same array and the same
\* error: T applied that many times to the all-zero array, and its last change
C20_SameArrays ==
    /\ vi_pc = "loop" =>
          /\ ArrEQ(vi_x, TPower(vi_k - 1))
          /\ vi_k > 1 => RatEQ(vi_error, TChange(vi_k - 1))
    /\ (opi_pc = "loop" /\ opi_m = 1) =>
          /\ ArrEQ(opi_v, TPower(opi_loops))
          /\ opi_loops >= 1 => RatEQ(opi_error, TChange(opi_loops))

\* C20: optimistic_policy_iteration with m = 1 is value_iteration: both hold
\* the same arrays after the same number of passes, both stop at the first
\* pass whose change is at most the tolerance (value_iteration at its cap if
\* that pass is beyond it), and both return greedy of the array they stopped at.
C20_SameAsValueIteration ==
    /\ []C20_SameArrays
    /\ [][VIReturn =>
            /\ vi_k - 1 = (IF FirstMet(vi_tol, vi_max_iter) <= vi_max_iter
                           THEN FirstMet(vi_tol, vi_max_iter) ELSE vi_max_iter)
            /\ vi_out' = get_greedy(TPower(vi_k - 1), constants, sizes, arrays)]_vars
    /\ [][(OPIReturn /\ opi_m = 1) =>
            /\ opi_loops = FirstMet(opi_tol, opi_loops)
            /\ opi_out' = get_greedy(TPower(opi_loops), constants, sizes, arrays)]_vars

\* C20 witness: value_iteration and optimistic_policy_iteration with m = 1
\* have both returned, the latter after at least two passes, with the same
\* policy, which is not the all-zero one.
C20_Witness ==
    /\ vi_pc = "done" /\ ~vi_warned
    /\ opi_pc = "done" /\ opi_m = 1 /\ opi_loops >= 2
    /\ opi_out = vi_out
    /\ \E s \in Idx(sizes) : opi_out[s] # 0

\* C15: no step of a solver changes the shared bundle, and each of the three
\* solves, interleaved in any order with the other two on the same bundle,
\* returns what it returns when run on its own.
C15_Independent ==
    /\ [][model' = model]_vars
    /\ [][PIReturn => pi_out' \in policy_iteration(pi_matrix)]_vars
    /\ [][VIReturn => vi_out' = value_iteration(vi_tol, vi_max_iter)]_vars
    /\ [][OPIReturn =>
            opi_out' = optimistic_policy_iteration(opi_tol, opi_m, opi_matrix)]_vars

\* C15 witness: value_iteration has returned a policy that is not all zeros
\* while policy_iteration and optimistic_policy_iteration are both between
\* two passes on the same bundle.
C15_Witness ==
    /\ vi_pc = "done" /\ \E s \in Idx(sizes) : vi_out[s] # 0
    /\ pi_pc = "loop" /\ pi_i >= 1 /\ pi_continue
    /\ opi_pc = "loop" /\ opi_loops >= 1 /\ opi_continue

\* with m <= 0 the array of optimistic_policy_iteration stays all zeros, at
\* most one pass is made, and after it error is 0 and the loop is over
C21_NoApplication ==
    (opi_pc \in {"loop", "done"} /\ opi_m <= 0) =>
        /\ opi_v = Zeros(sizes)
        /\ opi_loops <= 1
        /\ opi_loops = 1 => (opi_last_v = Zeros(sizes) /\ opi_error.num = 0 /\ ~opi_continue)

\* C21: optimistic_policy_iteration called with m <= 0 never applies T_sigma,
\* has error 0 after its first pass, returns after exactly one pass whatever
\* the tolerance (0 included), returns greedy of the all-zero array, and
\* prints no warning.
C21_ZeroInnerSteps ==
    /\ []C21_NoApplication
    /\ [][(OPIStep /\ opi_m <= 0) => (opi_loops = 0 /\ opi_v' = opi_v)]_vars
    /\ [][(OPIReturn /\ opi_m <= 0) =>
            /\ opi_loops = 1
            /\ opi_out' = get_greedy(Zeros(sizes), constants, sizes, arrays)
            /\ vi_warned' = vi_warned]_vars

\* C21 witness: optimistic_policy_iteration called with m = 0 and tolerance 0
\* has returned after one pass a policy that is not the one policy_iteration
\* returned with the direct evaluation.
C21_Witness ==
    /\ opi_pc = "done" /\ opi_m = 0 /\ opi_tol.num = 0 /\ opi_loops = 1
    /\ pi_pc = "done" /\ pi_matrix /\ opi_out # pi_out

\* C21 second case reached: the same with a negative m and a positive tolerance.
C21_Negative ==
    /\ opi_pc = "done" /\ opi_m < 0 /\ opi_tol.num > 0 /\ opi_loops = 1
    /\ pi_pc = "done" /\ pi_matrix /\ opi_out # pi_out

\* jnp.reshape(P_sigma, (n, n)): entry [m][mp] of the flattened array
Flattened(P) ==
    LET n == sizes[1] * sizes[2]
    IN  [m \in 0..(n - 1) |-> [mp \in 0..(n - 1) |->
            P.num[<<unflatten(m, sizes), unflatten(mp, sizes)>>]]]

\* C22: for a policy with entries in [0, Ny) and a row-stochastic Q, the array
\* compute_P_sigma builds, flattened to n x n with n = Ny * Nz, has no negative
\* entry, every row (i, j) sums to 1, and row (i, j) is zero outside the
\* columns (sigma[i, j], jp), where it holds Q[j, jp].
C22_RowStochastic ==
    probe_pc = "P" =>
        LET n == sizes[1] * sizes[2]
            F == Flattened(probe_P)
        IN  \A m \in 0..(n - 1) :
              /\ \A mp \in 0..(n - 1) : F[m][mp] >= 0
              /\ SumF(F[m], n) = probe_P.den
              /\ \A mp \in 0..(n - 1) :
                    IF unflatten(mp, sizes)[1] = probe_sigma[unflatten(m, sizes)]
                    THEN F[m][mp] = arrays[3].num[unflatten(m, sizes)[2]][unflatten(mp, sizes)[2]]
                    ELSE F[m][mp] = 0

\* C22 witness: compute_P_sigma was called on a three-point output grid and
\* the three-state chain (whose Q is not symmetric) with a policy that is not
\* constant, and the array has an entry strictly between 0 and 1.
C22_Witness ==
    /\ probe_pc = "P" /\ sizes = <<3, 3>>
    /\ \E s, t \in Idx(sizes) : probe_sigma[s] # probe_sigma[t]
    /\ \E e \in DOMAIN probe_P.num : 0 < probe_P.num[e] /\ probe_P.num[e] < probe_P.den
====
